---- MODULE Spec2Model ----
(***************************************************************************)
(* Vector geometry model of the Vector Addition simulation:                *)
(*   BaseVectorModel (js/common/model/BaseVectorModel.js) and the vector   *)
(*   set with its sum vector (VectorSet).                                   *)
(*                                                                         *)
(* Numbers.  Components and positions are integers (the grid the           *)
(* simulation snaps to).  Irrational results are kept in fixed point:      *)
(*   magnitudes in hundredths      (5 is 500, sqrt(20) is 447),            *)
(*   angles in radians * 10^4      (pi/4 is 7854),                         *)
(*   angles in degrees * 100       (45 degrees is 4500).                   *)
(*                                                                         *)
(* Objects.  A DOT Vector2 is a mutable object.  Its "set..." and          *)
(* "multiply..." methods change the receiver and return it (VectorNode     *)
(* relies on this in tipSnapToGrid: tipCoordinates.setY( 0 )); "plus" and  *)
(* "roundedSymmetric" return a new object.  An AXON Property notifies its  *)
(* listeners, DerivedProperty included, only when it is given an object    *)
(* other than the one it holds.  A property is modelled by the contents of *)
(* the object it holds; a derived property by the value it computed at the *)
(* last notification.                                                      *)
(***************************************************************************)
EXTENDS Integers, Sequences, FiniteSets, TLC

VARIABLES
  vector,     \* a BaseVectorModel under a sequence of calls of its public methods
  vectors,    \* VectorSet.vectors: the ObservableArray's backing array
  vectorSum,  \* VectorSet.vectorSum
  lastOp,     \* the call that completed last, with its arguments and outcome
  parentVectors,     \* the vectors a vector component is updated from
  yVectorComponent,  \* a YVectorComponent, and which object its tailPositionProperty holds
  vectorOrientation, \* VectorNode.vectorOrientation of the node whose vectorModel is vector
  visited,           \* the callbacks made by the last call of VectorSet.forEachVector
  sumVisibleProperty,        \* Explore1DScreenView: the toggles behind the grid panel
  valuesVisibleProperty,
  angleVisibleProperty,
  gridVisibleProperty,
  vectorOrientationProperty, \* Explore1DScreenView: the orientation behind the radio buttons
  scene,           \* CommonScreenView and Scene: scene nodes, graph.vectors, the vector layer
  creatorPanel,    \* a VectorCreatorPanel: its slots' icons, drags and the array it pushes to
  componentsNode,  \* a VectorComponentsNode and the properties of its multilink
  arcArrowNode,    \* an ArcArrowNode
  vectorNode       \* a VectorNode with its vectorModel in hundredths of a model unit

componentVars == <<parentVectors, yVectorComponent>>
screenVars == <<sumVisibleProperty, valuesVisibleProperty, angleVisibleProperty,
                gridVisibleProperty, vectorOrientationProperty>>
nodeVars == <<scene, creatorPanel, componentsNode, arcArrowNode, vectorNode>>
viewVars == <<componentVars, vectorOrientation, visited, screenVars, nodeVars>>

vars == <<vector, vectors, vectorSum, lastOp, viewVars>>

----------------------------------------------------------------------------
(* Bounds *)

MaxTail == 1      \* tail coordinates are drawn from 0..MaxTail
MaxComp == 1      \* components handed to the constructor and the setters: -MaxComp..MaxComp
MaxAbs == 2       \* multiplyScalar is not called when a component would leave -MaxAbs..MaxAbs
MaxVectors == 2   \* vectors in a vector set

TailCoords == 0..MaxTail
CompCoords == (-MaxComp)..MaxComp
Scalars == {-1, 0, 2}
\* the components vectors are constructed with
ConstructedComponents == {[x |-> 1, y |-> 1], [x |-> -1, y |-> 1], [x |-> -1, y |-> -1], [x |-> 1, y |-> 0]}
Magnitudes == {0, 1, 5}

\* where vectors are dropped on the graph, the components they are created with, the
\* components a tip drag snaps to, and the values a member's xMagnitude is set to
DropPositions == {[x |-> 0, y |-> 0], [x |-> 1, y |-> 1]}
DefaultComponents == {[x |-> 3, y |-> 4], [x |-> 1, y |-> -2]}
SnappedComponents == {[x |-> 3, y |-> 4], [x |-> 1, y |-> -2], [x |-> 0, y |-> 1]}
MemberMagnitudes == {1, 3}

----------------------------------------------------------------------------
(* Fixed point arithmetic *)

MagnitudeScale == 100
RadianScale == 10000
DegreeScale == 100
PiScaled == 31416

Abs(n) == IF n < 0 THEN -n ELSE n

RECURSIVE ISqrtBetween(_, _, _)
\* the largest r in lo..hi with r * r <= n, by bisection
ISqrtBetween(n, lo, hi) ==
  IF lo = hi THEN lo
  ELSE LET mid == (lo + hi + 1) \div 2 IN
         IF mid * mid <= n THEN ISqrtBetween(n, mid, hi) ELSE ISqrtBetween(n, lo, mid - 1)

\* nearest integer to the square root of n, 0 <= n < 2^30
RoundedSqrt(n) ==
  LET r == ISqrtBetween(n, 0, 32767) IN IF n - r * r > r THEN r + 1 ELSE r

\* Math.atan2( ay, ax ) for 0 <= ay, ax <= 12, in radians * 10^4; row ay + 1, column ax + 1
AtanTable ==
  <<
    <<    0,     0,     0,     0,     0,     0,     0,     0,     0,     0,     0,     0,     0>>,
    <<15708,  7854,  4636,  3218,  2450,  1974,  1651,  1419,  1244,  1107,   997,   907,   831>>,
    <<15708, 11071,  7854,  5880,  4636,  3805,  3218,  2783,  2450,  2187,  1974,  1799,  1651>>,
    <<15708, 12490,  9828,  7854,  6435,  5404,  4636,  4049,  3588,  3218,  2915,  2663,  2450>>,
    <<15708, 13258, 11071,  9273,  7854,  6747,  5880,  5191,  4636,  4182,  3805,  3488,  3218>>,
    <<15708, 13734, 11903, 10304,  8961,  7854,  6947,  6202,  5586,  5071,  4636,  4266,  3948>>,
    <<15708, 14056, 12490, 11071,  9828,  8761,  7854,  7086,  6435,  5880,  5404,  4993,  4636>>,
    <<15708, 14289, 12925, 11659, 10517,  9505,  8622,  7854,  7188,  6610,  6107,  5667,  5281>>,
    <<15708, 14464, 13258, 12120, 11071, 10122,  9273,  8520,  7854,  7266,  6747,  6288,  5880>>,
    <<15708, 14601, 13521, 12490, 11526, 10637,  9828,  9098,  8442,  7854,  7328,  6857,  6435>>,
    <<15708, 14711, 13734, 12793, 11903, 11071, 10304,  9601,  8961,  8380,  7854,  7378,  6947>>,
    <<15708, 14801, 13909, 13045, 12220, 11442, 10714, 10041,  9420,  8851,  8330,  7854,  7419>>,
    <<15708, 14877, 14056, 13258, 12490, 11760, 11071, 10427,  9828,  9273,  8761,  8288,  7854>>
  >>

\* Math.atan2( y, x ): in (-pi, pi], 0 at the zero vector
Atan2(y, x) ==
  LET t == AtanTable[Abs(y) + 1][Abs(x) + 1] IN
    IF x >= 0
      THEN (IF y >= 0 THEN t ELSE -t)
      ELSE (IF y >= 0 THEN PiScaled - t ELSE -(PiScaled - t))

\* n / d rounded to the nearest integer, d > 0
RoundDiv(n, d) ==
  IF n >= 0 THEN (2 * n + d) \div (2 * d) ELSE -((2 * (-n) + d) \div (2 * d))

\* DOT/Util.toDegrees( radians ) == 180 * radians / pi
toDegrees(radians) == RoundDiv(radians * 180 * DegreeScale, PiScaled)

----------------------------------------------------------------------------
(* DOT/Vector2 *)

Undefined == "undefined"

Vector2(x, y) == [x |-> x, y |-> y]

\* immutable: returns a new Vector2
Vector2_plus(a, b) == Vector2(a.x + b.x, a.y + b.y)

\* mutable: each changes the receiver and returns it; the result is the receiver's new contents
Vector2_setX(v, x) == [v EXCEPT !.x = x]
Vector2_setY(v, y) == [v EXCEPT !.y = y]
Vector2_multiplyScalar(v, s) == Vector2(v.x * s, v.y * s)

Vector2_getMagnitude(v) == RoundedSqrt(MagnitudeScale * MagnitudeScale * (v.x * v.x + v.y * v.y))
Vector2_getAngle(v) == Atan2(v.y, v.x)

\* the methods a Vector2 has, as far as this model names them
Vector2_methods ==
  {"plus", "setX", "setY", "setXY", "setMagnitude", "multiplyScalar", "getMagnitude", "getAngle",
   "roundedSymmetric"}

\* reading a field of a Property object: it has a value, and no magnitude or angle of its own
Property_field(value, name) == IF name = "value" THEN value ELSE Undefined

----------------------------------------------------------------------------
(* BaseVectorModel *)

\* the derivation of tipPositionProperty
DeriveTip(tailPosition, v) == Vector2_plus(tailPosition, v)

\* a magnitude taken as the sum of the absolute components
DeriveMagnitude_manhattan(attributesVector) ==
  MagnitudeScale * (Abs(attributesVector.x) + Abs(attributesVector.y))

\* the derivation of magnitudeProperty
DeriveMagnitude(attributesVector) == Vector2_getMagnitude(attributesVector)

\* the derivation of angleDegreesProperty
DeriveAngleDegrees(attributesVector) == toDegrees(Vector2_getAngle(attributesVector))

\* constructor( tailPosition, xMagnitude, yMagnitude, label )
BaseVectorModel(tailPosition, xMagnitude, yMagnitude) ==
  [ tailPositionProperty     |-> tailPosition,
    attributesVectorProperty |-> Vector2(xMagnitude, yMagnitude),
    tipPositionProperty      |-> DeriveTip(tailPosition, Vector2(xMagnitude, yMagnitude)),
    magnitudeProperty        |-> DeriveMagnitude(Vector2(xMagnitude, yMagnitude)),
    angleDegreesProperty     |-> DeriveAngleDegrees(Vector2(xMagnitude, yMagnitude)) ]

\* tailPositionProperty is given another object: tipPositionProperty is derived again
NotifyTail(vec, point) ==
  [vec EXCEPT !.tailPositionProperty = point,
              !.tipPositionProperty = DeriveTip(point, vec.attributesVectorProperty)]

\* attributesVectorProperty is given another object: the three derived properties are derived again
NotifyAttributes(vec, v) ==
  [vec EXCEPT !.attributesVectorProperty = v,
              !.tipPositionProperty = DeriveTip(vec.tailPositionProperty, v),
              !.magnitudeProperty = DeriveMagnitude(v),
              !.angleDegreesProperty = DeriveAngleDegrees(v)]

\* a scaling of the x component alone
multiplyScalar_xOnly(vec, scalar) ==
  [vec EXCEPT !.attributesVectorProperty = Vector2(@.x * scalar, @.y)]

\* multiplyScalar( scalar ): the property is handed the object it holds, no listener runs
multiplyScalar(vec, scalar) ==
  [vec EXCEPT !.attributesVectorProperty = Vector2_multiplyScalar(@, scalar)]

\* get magnitude()
get_magnitude(vec) == Property_field(vec.attributesVectorProperty, "magnitude")

\* set magnitude( magnitude ): calls setMagntude on a Vector2
set_magnitude(vec, magnitude) ==
  IF "setMagntude" \in Vector2_methods
    THEN [threw |-> FALSE, vec |-> vec]
    ELSE [threw |-> TRUE, vec |-> vec]

\* get xMagnitude() / set xMagnitude( magnitude )
get_xMagnitude(vec) == vec.attributesVectorProperty.x
set_xMagnitude(vec, magnitude) ==
  [vec EXCEPT !.attributesVectorProperty = Vector2_setX(@, magnitude)]

\* a yMagnitude setter that calls setX
set_yMagnitude_setsX(vec, magnitude) ==
  [vec EXCEPT !.attributesVectorProperty = Vector2_setX(@, magnitude)]

\* get yMagnitude() / set yMagnitude( magnitude )
get_yMagnitude(vec) == vec.attributesVectorProperty.y
set_yMagnitude(vec, magnitude) ==
  [vec EXCEPT !.attributesVectorProperty = Vector2_setY(@, magnitude)]

\* get tail() / set tail( point ): point is an object of the caller's
get_tail(vec) == vec.tailPositionProperty
set_tail(vec, point) == NotifyTail(vec, point)

\* a tailX setter that writes to the attributes vector
set_tailX_onAttributes(vec, x) ==
  [vec EXCEPT !.attributesVectorProperty = Vector2_setX(@, x)]

\* get tailX() / set tailX( x )
get_tailX(vec) == vec.tailPositionProperty.x
set_tailX(vec, x) == [vec EXCEPT !.tailPositionProperty = Vector2_setX(@, x)]

\* get tailY() / set tailY( y )
get_tailY(vec) == vec.tailPositionProperty.y
set_tailY(vec, y) == [vec EXCEPT !.tailPositionProperty = Vector2_setY(@, y)]

\* setTailXY( x, y )
setTailXY(vec, x, y) == set_tailY(set_tailX(vec, x), y)

\* get tip() / get tipX() / get tipY()
get_tip(vec) == vec.tipPositionProperty
get_tipX(vec) == vec.tipPositionProperty.x
get_tipY(vec) == vec.tipPositionProperty.x

\* get angle(): Vector2's angle getter, in radians
get_angle(vec) == Vector2_getAngle(vec.attributesVectorProperty)

----------------------------------------------------------------------------
(* VectorSet and its sum vector *)

\* an element of the vectors array is a member vector or the set's own sum vector (the
\* object this.vectorSum, whose state is the variable vectorSum)
SumRef == [ref |-> "vectorSum"]
IsSum(element) == "ref" \in DOMAIN element

RECURSIVE SumOfComponents(_)
\* the element-wise sum of the members' components, (0, 0) for no member; the sum vector is
\* not one of the vectors it adds up
SumOfComponents(members) ==
  IF members = <<>> THEN Vector2(0, 0)
  ELSE IF IsSum(Head(members)) THEN SumOfComponents(Tail(members))
  ELSE Vector2_plus(Head(members).attributesVectorProperty, SumOfComponents(Tail(members)))

\* VectorSum( vectors, ... ): a vector with no components at the centre of the graph
VectorSum == BaseVectorModel(Vector2(0, 0), 0, 0)

\* VectorSum's listener, run when an item is added or removed and when a member's
\* attributesVectorProperty notifies: a full re-reduction over the current members
updateSum(sum, members) == NotifyAttributes(sum, SumOfComponents(members))

\* ObservableArray.push( item ), before its listeners run
ObservableArray_push(array, item) == Append(array, item)

\* ObservableArray.remove( item ) of the item at index i, before its listeners run
ObservableArray_remove(array, i) ==
  [k \in 1..(Len(array) - 1) |-> IF k < i THEN array[k] ELSE array[k + 1]]

\* ObservableArray.clear(), before its listeners run
ObservableArray_clear(array) == <<>>

\* VectorSet.reset()
reset(array) == ObservableArray_clear(array)

\* VectorCreatorPanel: the end of the drag of a vector representation creates a vector at the
\* drop position with the panel's default components and pushes it
dropVector(array, position, defaultVectorComponents) ==
  ObservableArray_push(array,
    BaseVectorModel(position, defaultVectorComponents.x, defaultVectorComponents.y))

\* VectorNode.tipSnapToGrid, its last statement: attributesVectorProperty is given a new Vector2
snapTip(vec, rounded) == NotifyAttributes(vec, rounded)

----------------------------------------------------------------------------
(* The calls *)

NoOp == [op |-> "new", a |-> 0, b |-> 0, threw |-> FALSE]
Op(name, a, b, threw) == [op |-> name, a |-> a, b |-> b, threw |-> threw]

InBounds(v) == Abs(v.x) <= MaxAbs /\ Abs(v.y) <= MaxAbs

SetTail ==
  \E x \in TailCoords, y \in TailCoords :
    /\ vector' = set_tail(vector, Vector2(x, y))
    /\ lastOp' = Op("set tail", x, y, FALSE)
    /\ UNCHANGED <<vectors, vectorSum, viewVars>>

SetTailX ==
  \E x \in TailCoords :
    /\ vector' = set_tailX(vector, x)
    /\ lastOp' = Op("set tailX", x, 0, FALSE)
    /\ UNCHANGED <<vectors, vectorSum, viewVars>>

SetTailY ==
  \E y \in TailCoords :
    /\ vector' = set_tailY(vector, y)
    /\ lastOp' = Op("set tailY", y, 0, FALSE)
    /\ UNCHANGED <<vectors, vectorSum, viewVars>>

SetTailXY ==
  \E x \in TailCoords, y \in TailCoords :
    /\ vector' = setTailXY(vector, x, y)
    /\ lastOp' = Op("setTailXY", x, y, FALSE)
    /\ UNCHANGED <<vectors, vectorSum, viewVars>>

SetXMagnitude ==
  \E m \in CompCoords :
    /\ vector' = set_xMagnitude(vector, m)
    /\ lastOp' = Op("set xMagnitude", m, 0, FALSE)
    /\ UNCHANGED <<vectors, vectorSum, viewVars>>

SetYMagnitude ==
  \E m \in CompCoords :
    /\ vector' = set_yMagnitude(vector, m)
    /\ lastOp' = Op("set yMagnitude", m, 0, FALSE)
    /\ UNCHANGED <<vectors, vectorSum, viewVars>>

MultiplyScalar ==
  \E s \in Scalars :
    /\ InBounds(Vector2_multiplyScalar(vector.attributesVectorProperty, s))
    /\ vector' = multiplyScalar(vector, s)
    /\ lastOp' = Op("multiplyScalar", s, 0, FALSE)
    /\ UNCHANGED <<vectors, vectorSum, viewVars>>

SetMagnitude ==
  \E m \in Magnitudes :
    /\ vector' = set_magnitude(vector, m).vec
    /\ lastOp' = Op("set magnitude", m, 0, set_magnitude(vector, m).threw)
    /\ UNCHANGED <<vectors, vectorSum, viewVars>>

InitSet ==
  /\ vectors = <<>>
  /\ vectorSum = VectorSum

\* Explore1DScreenView.constructor: the four toggles and the orientation
InitScreen ==
  /\ sumVisibleProperty = FALSE
  /\ valuesVisibleProperty = FALSE
  /\ angleVisibleProperty = FALSE
  /\ gridVisibleProperty = FALSE
  /\ vectorOrientationProperty = "HORIZONTAL"

\* no scene, creator panel, components node, arc arrow or vector node in use
InitNoNodes ==
  /\ scene = [sceneNodes |-> 0]
  /\ creatorPanel = [slots |-> 0]
  /\ componentsNode = [visible |-> FALSE]
  /\ arcArrowNode = [angle |-> 0]
  /\ vectorNode = [constructed |-> FALSE]

\* no vector component, no vector node and no forEachVector call yet
InitNoView ==
  /\ parentVectors = <<>>
  /\ yVectorComponent = [tailOf |-> 0, model |-> BaseVectorModel(Vector2(0, 0), 0, 0)]
  /\ vectorOrientation = "TWO_DIMENSIONAL"
  /\ visited = <<>>

Init ==
  /\ \E tx \in TailCoords, ty \in TailCoords, c \in ConstructedComponents :
       vector = BaseVectorModel(Vector2(tx, ty), c.x, c.y)
  /\ lastOp = NoOp
  /\ InitSet
  /\ InitNoView
  /\ InitScreen
  /\ InitNoNodes

Next ==
  \/ SetTail
  \/ SetTailX
  \/ SetTailY
  \/ SetTailXY
  \/ SetXMagnitude
  \/ SetYMagnitude
  \/ MultiplyScalar
  \/ SetMagnitude

Spec == Init /\ [][Next]_vars

----------------------------------------------------------------------------
(* The calls on a vector set *)

AddVector ==
  \E p \in DropPositions, c \in DefaultComponents :
    /\ Len(vectors) < MaxVectors
    /\ vectors' = dropVector(vectors, p, c)
    /\ vectorSum' = updateSum(vectorSum, vectors')
    /\ lastOp' = Op("add", c.x, c.y, FALSE)
    /\ UNCHANGED <<vector, componentVars, vectorOrientation, visited, screenVars, nodeVars>>

RemoveVector ==
  \E i \in 1..Len(vectors) :
    /\ ~IsSum(vectors[i])
    /\ vectors' = ObservableArray_remove(vectors, i)
    /\ vectorSum' = updateSum(vectorSum, vectors')
    /\ lastOp' = Op("remove", vectors[i].attributesVectorProperty.x,
                    vectors[i].attributesVectorProperty.y, FALSE)
    /\ UNCHANGED <<vector, componentVars, vectorOrientation, visited, screenVars, nodeVars>>

Reset ==
  /\ vectors' = reset(vectors)
  /\ vectorSum' = IF vectors = <<>> THEN vectorSum ELSE updateSum(vectorSum, vectors')
  /\ lastOp' = Op("reset", 0, 0, FALSE)
  /\ UNCHANGED <<vector, componentVars, vectorOrientation, visited, screenVars, nodeVars>>

TipDrag ==
  \E i \in 1..Len(vectors), c \in SnappedComponents :
    /\ vectors' = [vectors EXCEPT ![i] = snapTip(@, c)]
    /\ vectorSum' = updateSum(vectorSum, vectors')
    /\ lastOp' = Op("tip drag", c.x, c.y, FALSE)
    /\ UNCHANGED <<vector, componentVars, vectorOrientation, visited, screenVars, nodeVars>>

MemberSetXMagnitude ==
  \E i \in 1..Len(vectors), m \in MemberMagnitudes :
    /\ vectors' = [vectors EXCEPT ![i] = set_xMagnitude(@, m)]
    /\ lastOp' = Op("member set xMagnitude", m, 0, FALSE)
    /\ UNCHANGED <<vector, vectorSum, viewVars>>

InitVectorSet ==
  /\ vector = BaseVectorModel(Vector2(0, 0), 1, 0)
  /\ lastOp = NoOp
  /\ InitSet
  /\ InitNoView
  /\ InitScreen
  /\ InitNoNodes

NextVectorSet ==
  \/ AddVector
  \/ RemoveVector
  \/ Reset
  \/ TipDrag
  \/ MemberSetXMagnitude

SpecVectorSet == InitVectorSet /\ [][NextVectorSet]_vars

----------------------------------------------------------------------------
(* Properties of BaseVectorModel, under Spec *)

tail == vector.tailPositionProperty
components == vector.attributesVectorProperty
TailOps == {"set tail", "set tailX", "set tailY", "setTailXY"}

\* C1: in every reachable state the tip read through tipPositionProperty / get tip is
\* tail + components.
C1_TipIsTailPlusComponents ==
  /\ get_tip(vector).x = tail.x + components.x
  /\ get_tip(vector).y = tail.y + components.y

\* C4: every tail mutation leaves the components unchanged; set tailX leaves tail.y and
\* set tailY leaves tail.x unchanged; after setTailXY( x, y ) the tail is (x, y).
C4_TailMutationKeepsComponents ==
  [][ lastOp'.op \in TailOps =>
        /\ vector'.attributesVectorProperty = vector.attributesVectorProperty
        /\ lastOp'.op = "set tail" =>
             vector'.tailPositionProperty = Vector2(lastOp'.a, lastOp'.b)
        /\ lastOp'.op = "set tailX" =>
             /\ vector'.tailPositionProperty.x = lastOp'.a
             /\ vector'.tailPositionProperty.y = vector.tailPositionProperty.y
        /\ lastOp'.op = "set tailY" =>
             /\ vector'.tailPositionProperty.y = lastOp'.a
             /\ vector'.tailPositionProperty.x = vector.tailPositionProperty.x
        /\ lastOp'.op = "setTailXY" =>
             vector'.tailPositionProperty = Vector2(lastOp'.a, lastOp'.b) ]_vars

\* a vector with components (-1, 1) whose tail has just been moved to (1, 0) by set tailX
C4_Witness ==
  /\ lastOp.op = "set tailX"
  /\ lastOp.a = 1
  /\ tail = Vector2(1, 0)
  /\ components = Vector2(-1, 1)

\* C5: set xMagnitude = m makes components.x = m and leaves components.y and the tail
\* unchanged; set yMagnitude = m makes components.y = m and leaves components.x and the
\* tail unchanged.
C5_MagnitudeSettersFrame ==
  [][ /\ lastOp'.op = "set xMagnitude" =>
           /\ get_xMagnitude(vector') = lastOp'.a
           /\ get_yMagnitude(vector') = get_yMagnitude(vector)
           /\ get_tail(vector') = get_tail(vector)
      /\ lastOp'.op = "set yMagnitude" =>
           /\ get_yMagnitude(vector') = lastOp'.a
           /\ get_xMagnitude(vector') = get_xMagnitude(vector)
           /\ get_tail(vector') = get_tail(vector) ]_vars

\* a vector at (1, 1) whose yMagnitude has just been set to -1 beside an xMagnitude of 2
C5_Witness ==
  /\ lastOp.op = "set yMagnitude"
  /\ lastOp.a = -1
  /\ components = Vector2(2, -1)
  /\ tail = Vector2(1, 1)

C7_MagnitudeAccessor ==
  /\ get_magnitude(vector) # Undefined
  /\ get_magnitude(vector) = Vector2_getMagnitude(components)

\* C8: set magnitude = m completes without error, makes the magnitude m and keeps the tail.
C8_SetMagnitudeCompletes ==
  lastOp.op = "set magnitude" =>
    /\ ~lastOp.threw
    /\ Vector2_getMagnitude(components) = MagnitudeScale * lastOp.a

\* C9: angleDegreesProperty is atan2( y, x ) of the components in degrees, in (-180, 180],
\* 45 for (1, 1), 135 for (-1, 1) and -135 for (-1, -1), and get angle returns that value.
C9_AngleInDegrees ==
  /\ vector.angleDegreesProperty = toDegrees(Atan2(components.y, components.x))
  /\ vector.angleDegreesProperty > -180 * DegreeScale
  /\ vector.angleDegreesProperty <= 180 * DegreeScale
  /\ components = Vector2(1, 1) => vector.angleDegreesProperty = 45 * DegreeScale
  /\ components = Vector2(-1, 1) => vector.angleDegreesProperty = 135 * DegreeScale
  /\ components = Vector2(-1, -1) => vector.angleDegreesProperty = -135 * DegreeScale
  /\ get_angle(vector) * DegreeScale = vector.angleDegreesProperty * RadianScale

\* C10: tipY returns tail.y + components.y and tipX returns tail.x + components.x.
C10_TipYIsTheYOfTheTip ==
  /\ get_tipX(vector) = tail.x + components.x
  /\ get_tipY(vector) = tail.y + components.y

----------------------------------------------------------------------------
(* Properties of the vector set, under SpecVectorSet *)

MemberComponents == [k \in 1..Len(vectors) |-> vectors[k].attributesVectorProperty]
TwoMembers == {<<Vector2(3, 4), Vector2(1, -2)>>, <<Vector2(1, -2), Vector2(3, 4)>>}
SumUpdatingOps == {"add", "remove", "tip drag"}

\* C2: after each add, remove, reset and member component change, the sum vector's
\* components are the element-wise sum of the components of the current members.
C2_SumIsSumOfMembers ==
  vectorSum.attributesVectorProperty = SumOfComponents(vectors)

----------------------------------------------------------------------------
(* YVectorComponent *)

\* ComponentStyles, and the styles updateComponent is called with: those four and a value
\* that is no style
ComponentStyles == {"TRIANGLE", "PARALLELOGRAM", "ON_AXIS", "INVISIBLE"}
StyleInputs == ComponentStyles \cup {Undefined}

\* the tails and y magnitudes the parent vectors are given
ParentTailCoords == {0, 2}
ParentTailPoints == {Vector2(2, 2)}
ParentMagnitudes == {-1, 2}

\* VectorComponent.constructor: a vector with no components; its tail is an object of its own
\* (tailOf is 0, or the index of the parent whose tail object the component holds)
VectorComponent == [tailOf |-> 0, model |-> BaseVectorModel(Vector2(0, 0), 0, 0)]

\* this.tailPositionProperty.value = an object with these contents, owned by parent `owner`
\* (0: a new object); the property notifies unless it already holds that object
assignTail(comp, contents, owner) ==
  IF owner # 0 /\ comp.tailOf = owner
    THEN comp
    ELSE [tailOf |-> owner, model |-> NotifyTail(comp.model, contents)]

\* this.yMagnitude = magnitude
assignYMagnitude(comp, magnitude) == [comp EXCEPT !.model = set_yMagnitude(@, magnitude)]

\* an ON_AXIS case copied from the X component: the tail is put on the x axis
updateComponent_onAxisX(comp, parentVector, k, componentStyle) ==
  LET parentTailPosition == parentVector.tailPositionProperty IN
    CASE componentStyle \in {"TRIANGLE", "PARALLELOGRAM"} ->
           [threw |-> FALSE,
            comp |-> assignYMagnitude(assignTail(comp, parentTailPosition, k),
                                      get_yMagnitude(parentVector))]
      [] componentStyle = "ON_AXIS" ->
           [threw |-> FALSE,
            comp |-> assignYMagnitude(assignTail(comp, Vector2(get_tailX(parentVector), 0), 0),
                                      get_yMagnitude(parentVector))]
      [] OTHER -> [threw |-> TRUE, comp |-> comp]

\* a tail assignment hoisted above the switch: it runs before the default case throws
updateComponent_tailFirst(comp, parentVector, k, componentStyle) ==
  LET parentTailPosition == parentVector.tailPositionProperty
      moved == assignTail(comp, parentTailPosition, k) IN
    CASE componentStyle \in {"TRIANGLE", "PARALLELOGRAM"} ->
           [threw |-> FALSE, comp |-> assignYMagnitude(moved, get_yMagnitude(parentVector))]
      [] componentStyle = "ON_AXIS" ->
           [threw |-> FALSE,
            comp |-> assignYMagnitude(assignTail(comp, Vector2(0, get_tailY(parentVector)), 0),
                                      get_yMagnitude(parentVector))]
      [] OTHER -> [threw |-> TRUE, comp |-> moved]

\* YVectorComponent.updateComponent( parentVector, componentStyle ); k is the parent's index
updateComponent(comp, parentVector, k, componentStyle) ==
  LET parentTailPosition == parentVector.tailPositionProperty IN
    CASE componentStyle = "TRIANGLE" ->
           [threw |-> FALSE,
            comp |-> assignYMagnitude(assignTail(comp, parentTailPosition, k),
                                      get_yMagnitude(parentVector))]
      [] componentStyle = "PARALLELOGRAM" ->
           [threw |-> FALSE,
            comp |-> assignYMagnitude(assignTail(comp, parentTailPosition, k),
                                      get_yMagnitude(parentVector))]
      [] componentStyle = "ON_AXIS" ->
           [threw |-> FALSE,
            comp |-> assignYMagnitude(assignTail(comp, Vector2(0, get_tailY(parentVector)), 0),
                                      get_yMagnitude(parentVector))]
      [] OTHER -> [threw |-> TRUE, comp |-> comp]

UpdateComponent ==
  \E k \in 1..Len(parentVectors), style \in StyleInputs :
    /\ yVectorComponent' = updateComponent(yVectorComponent, parentVectors[k], k, style).comp
    /\ lastOp' = Op("updateComponent", k, style,
                    updateComponent(yVectorComponent, parentVectors[k], k, style).threw)
    /\ UNCHANGED <<vector, vectors, vectorSum, parentVectors, vectorOrientation, visited,
                   screenVars, nodeVars>>

\* parent.tailX = x: the parent's tail object changes in place, seen by every holder of it
ParentSetTailX ==
  \E k \in 1..Len(parentVectors), x \in ParentTailCoords :
    /\ parentVectors' = [parentVectors EXCEPT ![k] = set_tailX(@, x)]
    /\ yVectorComponent' =
         IF yVectorComponent.tailOf = k
           THEN [yVectorComponent EXCEPT !.model = set_tailX(@, x)]
           ELSE yVectorComponent
    /\ lastOp' = Op("parent set tailX", 0, 0, FALSE)
    /\ UNCHANGED <<vector, vectors, vectorSum, vectorOrientation, visited, screenVars, nodeVars>>

\* parent.tail = point: the parent holds a new object, a component keeps the old one
ParentSetTail ==
  \E k \in 1..Len(parentVectors), point \in ParentTailPoints :
    /\ parentVectors' = [parentVectors EXCEPT ![k] = set_tail(@, point)]
    /\ yVectorComponent' =
         IF yVectorComponent.tailOf = k
           THEN [yVectorComponent EXCEPT !.tailOf = 0]
           ELSE yVectorComponent
    /\ lastOp' = Op("parent set tail", 0, 0, FALSE)
    /\ UNCHANGED <<vector, vectors, vectorSum, vectorOrientation, visited, screenVars, nodeVars>>

\* parent.yMagnitude = m
ParentSetYMagnitude ==
  \E k \in 1..Len(parentVectors), m \in ParentMagnitudes :
    /\ parentVectors' = [parentVectors EXCEPT ![k] = set_yMagnitude(@, m)]
    /\ lastOp' = Op("parent set yMagnitude", 0, 0, FALSE)
    /\ UNCHANGED <<vector, vectors, vectorSum, yVectorComponent, vectorOrientation, visited,
                   screenVars, nodeVars>>

InitComponent ==
  /\ vector = BaseVectorModel(Vector2(0, 0), 1, 0)
  /\ lastOp = NoOp
  /\ InitSet
  /\ InitScreen
  /\ InitNoNodes
  /\ parentVectors = <<BaseVectorModel(Vector2(0, 2), 1, 2), BaseVectorModel(Vector2(2, 0), -1, -1)>>
  /\ yVectorComponent = VectorComponent
  /\ vectorOrientation = "TWO_DIMENSIONAL"
  /\ visited = <<>>

NextComponent ==
  \/ UpdateComponent
  \/ ParentSetTailX
  \/ ParentSetTail
  \/ ParentSetYMagnitude

SpecComponent == InitComponent /\ [][NextComponent]_vars

HandledStyles == {"TRIANGLE", "PARALLELOGRAM", "ON_AXIS"}
updatedFrom == parentVectors[lastOp.a]

\* C11: after updateComponent( parent, style ) the Y component's tail is the parent's tail for
\* TRIANGLE and PARALLELOGRAM and (0, parent.tailY) for ON_AXIS, and its components are
\* (0, parent.yMagnitude) for all three.
C11_YComponentFollowsParent ==
  (lastOp.op = "updateComponent" /\ lastOp.b \in HandledStyles) =>
    /\ ~lastOp.threw
    /\ lastOp.b \in {"TRIANGLE", "PARALLELOGRAM"} =>
         get_tail(yVectorComponent.model) = get_tail(updatedFrom)
    /\ lastOp.b = "ON_AXIS" =>
         get_tail(yVectorComponent.model) = Vector2(0, get_tailY(updatedFrom))
    /\ get_xMagnitude(yVectorComponent.model) = 0
    /\ get_yMagnitude(yVectorComponent.model) = get_yMagnitude(updatedFrom)

\* an ON_AXIS update from the second parent, whose tail is off the y axis, after an update
\* that shared the first parent's tail
C11_Witness ==
  /\ lastOp.op = "updateComponent"
  /\ lastOp.b = "ON_AXIS"
  /\ lastOp.a = 2
  /\ get_tail(parentVectors[2]) = Vector2(2, 2)
  /\ get_tail(yVectorComponent.model) = Vector2(0, 2)
  /\ get_yMagnitude(yVectorComponent.model) = 2

\* C12: updateComponent with style INVISIBLE completes without error and leaves the
\* component's y magnitude equal to the parent's.
C12_InvisibleStillComputed ==
  (lastOp.op = "updateComponent" /\ lastOp.b = "INVISIBLE") =>
    /\ ~lastOp.threw
    /\ get_yMagnitude(yVectorComponent.model) = get_yMagnitude(updatedFrom)

\* C13: updateComponent with a style that is none of the handled styles raises an error and
\* leaves the component's tail and components as they were.
C13_UnhandledStyleThrowsAndKeeps ==
  [][ (lastOp'.op = "updateComponent" /\ lastOp'.b \notin HandledStyles) =>
        /\ lastOp'.threw
        /\ yVectorComponent' = yVectorComponent ]_vars

\* a call with no style on a component that an earlier update gave the tail (2, 0) and the
\* y magnitude -1
C13_Witness ==
  /\ lastOp.op = "updateComponent"
  /\ lastOp.b = Undefined
  /\ lastOp.threw
  /\ get_tail(yVectorComponent.model) = Vector2(2, 0)
  /\ get_yMagnitude(yVectorComponent.model) = -1

----------------------------------------------------------------------------
(* VectorNode: snapping the dragged tip and tail to the grid *)

VectorOrientations == {"HORIZONTAL", "VERTICAL", "TWO_DIMENSIONAL"}
\* the orientations a node is constructed with: the three modes and a value that is none
OrientationInputs == VectorOrientations \cup {Undefined}

\* view lengths are in quarter pixels; MODEL_TO_VIEW_SCALE_FACTOR is 12.5 pixels for a model
\* unit; raw (unrounded) model coordinates are in hundredths
ViewUnitsPerModelUnit == 50
GraphModelMinX == -30
GraphModelMaxY == 20
GraphViewMinX == 116
GraphViewMinY == 360

\* the tip locations (relative to the tail) and tail locations a drag supplies: raw model
\* coordinates -2.6, -2.5, 0, 2.4, 2.5 and tails (0, 0), (1, 1), (0.5, 0.5), (-0.5, -0.5)
ViewCoords == {-130, -125, 0, 120, 125}
TailViewLocations ==
  {Vector2(1616, 1360), Vector2(1666, 1310), Vector2(1641, 1335), Vector2(1591, 1385)}

\* ModelViewTransform2.createRectangleInvertedYMapping: viewToModelDelta, modelToViewDelta
\* (from integer model coordinates), viewToModelPosition
viewToModelDelta(p) ==
  Vector2((p.x * MagnitudeScale) \div ViewUnitsPerModelUnit,
          (0 - p.y * MagnitudeScale) \div ViewUnitsPerModelUnit)
modelToViewDelta(v) == Vector2(v.x * ViewUnitsPerModelUnit, 0 - v.y * ViewUnitsPerModelUnit)
viewToModelPosition(p) ==
  Vector2(GraphModelMinX * MagnitudeScale
            + ((p.x - GraphViewMinX) * MagnitudeScale) \div ViewUnitsPerModelUnit,
          GraphModelMaxY * MagnitudeScale
            - ((p.y - GraphViewMinY) * MagnitudeScale) \div ViewUnitsPerModelUnit)

\* Math.round in place of Util.roundSymmetric: halves go up, -2.5 to -2
roundSymmetric_mathRound(hundredths) == (hundredths + 50) \div MagnitudeScale

\* Util.roundSymmetric: sign( value ) * Math.round( |value| ), of a value in hundredths
roundSymmetric(hundredths) ==
  IF hundredths < 0
    THEN 0 - ((Abs(hundredths) + 50) \div MagnitudeScale)
    ELSE (hundredths + 50) \div MagnitudeScale

\* Vector2.roundedSymmetric: a new vector
Vector2_roundedSymmetric(v) == Vector2(roundSymmetric(v.x), roundSymmetric(v.y))

\* the switch with its projections left out
tipSnapToGrid_noProjection(vec, orientation, tipLocation) ==
  LET tipCoordinates == viewToModelDelta(tipLocation) IN
    IF orientation \in VectorOrientations
      THEN [threw |-> FALSE,
            vec |-> NotifyAttributes(vec, Vector2_roundedSymmetric(tipCoordinates))]
      ELSE [threw |-> TRUE, vec |-> vec]

\* a default case that breaks instead of throwing
tipSnapToGrid_defaultBreaks(vec, orientation, tipLocation) ==
  LET tipCoordinates == viewToModelDelta(tipLocation)
      projected ==
        CASE orientation = "HORIZONTAL" -> Vector2_setY(tipCoordinates, 0)
          [] orientation = "VERTICAL" -> Vector2_setX(tipCoordinates, 0)
          [] OTHER -> tipCoordinates
  IN [threw |-> FALSE, vec |-> NotifyAttributes(vec, Vector2_roundedSymmetric(projected))]

\* VectorNode.tipSnapToGrid( tipLocation )
tipSnapToGrid(vec, orientation, tipLocation) ==
  LET tipCoordinates == viewToModelDelta(tipLocation) IN
    CASE orientation = "HORIZONTAL" ->
           [threw |-> FALSE,
            vec |-> NotifyAttributes(vec,
                      Vector2_roundedSymmetric(Vector2_setY(tipCoordinates, 0)))]
      [] orientation = "VERTICAL" ->
           [threw |-> FALSE,
            vec |-> NotifyAttributes(vec,
                      Vector2_roundedSymmetric(Vector2_setX(tipCoordinates, 0)))]
      [] orientation = "TWO_DIMENSIONAL" ->
           [threw |-> FALSE,
            vec |-> NotifyAttributes(vec, Vector2_roundedSymmetric(tipCoordinates))]
      [] OTHER -> [threw |-> TRUE, vec |-> vec]

\* a tail snap that holds the tip where it was, so the components change
tailSnapToGrid_keepsTip(vec, tailLocation) ==
  LET snapped == Vector2_roundedSymmetric(viewToModelPosition(tailLocation)) IN
    NotifyAttributes(set_tail(vec, snapped),
                     Vector2(get_tail(vec).x + vec.attributesVectorProperty.x - snapped.x,
                             get_tail(vec).y + vec.attributesVectorProperty.y - snapped.y))

\* VectorNode.tailSnapToGrid( tailLocation )
tailSnapToGrid(vec, tailLocation) ==
  set_tail(vec, Vector2_roundedSymmetric(viewToModelPosition(tailLocation)))

\* a constructor that registers the tip listener without calling it (lazyLink)
VectorNode_lazyLink(vec, orientation) == vec

\* VectorNode.constructor: linking the tip listener snaps the tip once, at the location of
\* the vector's components. With an orientation that is no mode that call throws, so a node
\* with such an orientation exists only for a vector whose tip is not draggable.
VectorNode(vec, orientation) ==
  IF orientation \in VectorOrientations
    THEN tipSnapToGrid(vec, orientation,
                       modelToViewDelta(vec.attributesVectorProperty)).vec
    ELSE vec

TipSnapToGrid ==
  \E x \in ViewCoords, y \in ViewCoords :
    /\ vector' = tipSnapToGrid(vector, vectorOrientation, Vector2(x, y)).vec
    /\ lastOp' = Op("tipSnapToGrid", Vector2(x, y), 0,
                    tipSnapToGrid(vector, vectorOrientation, Vector2(x, y)).threw)
    /\ UNCHANGED <<vectors, vectorSum, viewVars>>

TailSnapToGrid ==
  \E tailLocation \in TailViewLocations :
    /\ vector' = tailSnapToGrid(vector, tailLocation)
    /\ lastOp' = Op("tailSnapToGrid", tailLocation, 0, FALSE)
    /\ UNCHANGED <<vectors, vectorSum, viewVars>>

InitVectorNode ==
  /\ vectorOrientation \in OrientationInputs
  /\ \E c \in ConstructedComponents :
       vector = VectorNode(BaseVectorModel(Vector2(0, 0), c.x, c.y), vectorOrientation)
  /\ lastOp = NoOp
  /\ InitSet
  /\ InitScreen
  /\ InitNoNodes
  /\ parentVectors = <<>>
  /\ yVectorComponent = VectorComponent
  /\ visited = <<>>

NextVectorNode ==
  \/ TipSnapToGrid
  \/ TailSnapToGrid

SpecVectorNode == InitVectorNode /\ [][NextVectorNode]_vars

\* C14: after tipSnapToGrid on a HORIZONTAL node the vector's y component is 0, and on a
\* VERTICAL node its x component is 0, whatever the tip location and the components before.
C14_OrientationProjects ==
  lastOp.op = "tipSnapToGrid" =>
    /\ vectorOrientation = "HORIZONTAL" => get_yMagnitude(vector) = 0
    /\ vectorOrientation = "VERTICAL" => get_xMagnitude(vector) = 0

\* a tip dragged to the raw point (2.4, 2.6) on a HORIZONTAL node
C14_Witness ==
  /\ lastOp.op = "tipSnapToGrid"
  /\ lastOp.a = Vector2(120, -130)
  /\ vectorOrientation = "HORIZONTAL"
  /\ components = Vector2(2, 0)

\* an integer that is nearest to the raw coordinate (in hundredths), the farther from zero
\* of the two when the raw coordinate is halfway
NearestHalfAway(raw, c) ==
  /\ Abs(c * MagnitudeScale - raw) * 2 <= MagnitudeScale
  /\ Abs(c * MagnitudeScale - raw) * 2 = MagnitudeScale => Abs(c * MagnitudeScale) > Abs(raw)

\* C15: after tipSnapToGrid each component that the orientation does not project out is the
\* raw model coordinate rounded to the nearest integer, halves away from zero (2.5 to 3,
\* -2.5 to -3); TWO_DIMENSIONAL projects nothing out, and the raw point (2.4, 2.6) gives
\* (2, 3); under HORIZONTAL and VERTICAL the projected component is 0.
C15_RoundsHalfAwayFromZero ==
  (lastOp.op = "tipSnapToGrid" /\ ~lastOp.threw) =>
    LET raw == viewToModelDelta(lastOp.a) IN
      /\ vectorOrientation \in {"TWO_DIMENSIONAL", "HORIZONTAL"} =>
           NearestHalfAway(raw.x, components.x)
      /\ vectorOrientation \in {"TWO_DIMENSIONAL", "VERTICAL"} =>
           NearestHalfAway(raw.y, components.y)
      /\ vectorOrientation = "HORIZONTAL" => components.y = 0
      /\ vectorOrientation = "VERTICAL" => components.x = 0
      /\ (vectorOrientation = "TWO_DIMENSIONAL" /\ raw = Vector2(240, 260)) =>
           components = Vector2(2, 3)
      /\ (vectorOrientation = "TWO_DIMENSIONAL" /\ raw = Vector2(250, -250)) =>
           components = Vector2(3, -3)

\* the tip dragged to the raw point (-2.5, 2.5) on a TWO_DIMENSIONAL node
C15_Witness ==
  /\ lastOp.op = "tipSnapToGrid"
  /\ vectorOrientation = "TWO_DIMENSIONAL"
  /\ viewToModelDelta(lastOp.a) = Vector2(-250, 250)
  /\ components = Vector2(-3, 3)

\* C16: tipSnapToGrid on a node whose orientation is none of the three modes throws and
\* leaves the vector's components and tail as they were.
C16_UnhandledOrientationThrowsAndKeeps ==
  [][ (lastOp'.op = "tipSnapToGrid" /\ vectorOrientation \notin VectorOrientations) =>
        /\ lastOp'.threw
        /\ vector'.attributesVectorProperty = vector.attributesVectorProperty
        /\ vector'.tailPositionProperty = vector.tailPositionProperty ]_vars

\* a tip drag on a node with no orientation whose vector has a tail at (1, 1)
C16_Witness ==
  /\ lastOp.op = "tipSnapToGrid"
  /\ lastOp.threw
  /\ lastOp.a = Vector2(120, -130)
  /\ vectorOrientation = Undefined
  /\ tail = Vector2(1, 1)
  /\ components = Vector2(-1, 1)

\* C25: tailSnapToGrid sets the tail to the view location transformed to model space with
\* each coordinate rounded to the nearest integer, halves away from zero, under every
\* orientation and on both axes, and leaves the components as they were.
C25_TailSnapRoundsAndKeepsComponents ==
  [][ lastOp'.op = "tailSnapToGrid" =>
        LET raw == viewToModelPosition(lastOp'.a) IN
          /\ NearestHalfAway(raw.x, get_tail(vector').x)
          /\ NearestHalfAway(raw.y, get_tail(vector').y)
          /\ vector'.attributesVectorProperty = vector.attributesVectorProperty ]_vars

\* the body of a HORIZONTAL vector with components (1, 0) dropped at the raw point
\* (-0.5, -0.5): the tail is at (-1, -1)
C25_Witness ==
  /\ lastOp.op = "tailSnapToGrid"
  /\ vectorOrientation = "HORIZONTAL"
  /\ viewToModelPosition(lastOp.a) = Vector2(-50, -50)
  /\ tail = Vector2(-1, -1)
  /\ components = Vector2(1, 0)

----------------------------------------------------------------------------
(* VectorSet.forEachVector *)

\* the number of times the sum vector is let into the array
MaxSumPushes == 2

RECURSIVE CountSum(_)
CountSum(array) ==
  IF array = <<>> THEN 0
  ELSE (IF IsSum(Head(array)) THEN 1 ELSE 0) + CountSum(Tail(array))

\* ObservableArray.getArray(): the array the ObservableArray works on, not a copy
ObservableArray_getArray(array) == array

\* Array.prototype.push on that array: no listener of the ObservableArray runs
Array_push(array, item) == Append(array, item)

\* the calls callback( vector, isSum ) that this.vectors.forEach makes, in order
callbacks(array) ==
  [k \in 1..Len(array) |-> [vector |-> array[k], isSum |-> (SumRef = array[k])]]

\* VectorSet.forEachVector( callback ): the array afterwards and the calls made
forEachVector(array) ==
  LET combinedArray == Array_push(ObservableArray_getArray(array), SumRef) IN
    [vectors |-> combinedArray, visited |-> callbacks(combinedArray)]

ForEachVector ==
  /\ CountSum(vectors) < MaxSumPushes
  /\ vectors' = forEachVector(vectors).vectors
  /\ visited' = forEachVector(vectors).visited
  /\ lastOp' = Op("forEachVector", 0, 0, FALSE)
  /\ UNCHANGED <<vector, vectorSum, componentVars, vectorOrientation, screenVars, nodeVars>>

NextForEach ==
  \/ AddVector
  \/ RemoveVector
  \/ Reset
  \/ ForEachVector

SpecForEach == InitVectorSet /\ [][NextForEach]_vars

\* the member vectors of the set, in collection order
Members == SelectSeq(vectors, LAMBDA element : ~IsSum(element))

\* C17: a forEachVector call calls back once for every member, in collection order, with
\* isSum false, then once for the sum vector with isSum true, and for nothing else.
C17_VisitsMembersThenSumOnce ==
  lastOp.op = "forEachVector" =>
    visited = [k \in 1..(Len(Members) + 1) |->
                 IF k <= Len(Members)
                   THEN [vector |-> Members[k], isSum |-> FALSE]
                   ELSE [vector |-> SumRef, isSum |-> TRUE]]

\* C18: the sum vector is never an element of the vectors collection, and a forEachVector
\* call leaves the collection as it was.
C18_SumNeverInCollection ==
  /\ [](\A k \in 1..Len(vectors) : ~IsSum(vectors[k]))
  /\ [][lastOp'.op = "forEachVector" => vectors' = vectors]_vars

----------------------------------------------------------------------------
(* Explore1DScreenView: the toggles, the orientation radio buttons and reset all *)

\* the orientations of the two radio buttons
RadioButtonValues == {"HORIZONTAL", "VERTICAL"}

\* Property.reset(): the value the property was constructed with
Property_reset(initialValue) == initialValue

\* Explore1DModel.reset(): the model resets its vector set
Explore1DModel_reset(array) == reset(array)

\* the state the reset all listener works on
ScreenState ==
  [vectors |-> vectors,
   sumVisibleProperty |-> sumVisibleProperty,
   valuesVisibleProperty |-> valuesVisibleProperty,
   angleVisibleProperty |-> angleVisibleProperty,
   gridVisibleProperty |-> gridVisibleProperty,
   vectorOrientationProperty |-> vectorOrientationProperty]

\* a listener that leaves the grid toggle out
resetAll_withoutGrid(screen) ==
  [screen EXCEPT !.vectors = Explore1DModel_reset(@),
                 !.sumVisibleProperty = Property_reset(FALSE),
                 !.valuesVisibleProperty = Property_reset(FALSE),
                 !.angleVisibleProperty = Property_reset(FALSE)]

\* the listener of the ResetAllButton
resetAll(screen) ==
  [screen EXCEPT !.vectors = Explore1DModel_reset(@),
                 !.sumVisibleProperty = Property_reset(FALSE),
                 !.valuesVisibleProperty = Property_reset(FALSE),
                 !.angleVisibleProperty = Property_reset(FALSE),
                 !.gridVisibleProperty = Property_reset(FALSE)]

\* the number of toggles that are on
TogglesOn ==
  Cardinality({t \in {<<1, sumVisibleProperty>>, <<2, valuesVisibleProperty>>,
                      <<3, angleVisibleProperty>>, <<4, gridVisibleProperty>>} : t[2]})

\* the check boxes of the GridPanel
ToggleSumVisible ==
  /\ sumVisibleProperty' = ~sumVisibleProperty
  /\ lastOp' = Op("toggle sum", 0, 0, FALSE)
  /\ UNCHANGED <<vector, vectors, vectorSum, componentVars, vectorOrientation, visited,
                 valuesVisibleProperty, angleVisibleProperty, gridVisibleProperty,
                 vectorOrientationProperty, nodeVars>>

ToggleValuesVisible ==
  /\ valuesVisibleProperty' = ~valuesVisibleProperty
  /\ lastOp' = Op("toggle values", 0, 0, FALSE)
  /\ UNCHANGED <<vector, vectors, vectorSum, componentVars, vectorOrientation, visited,
                 sumVisibleProperty, angleVisibleProperty, gridVisibleProperty,
                 vectorOrientationProperty, nodeVars>>

ToggleAngleVisible ==
  /\ angleVisibleProperty' = ~angleVisibleProperty
  /\ lastOp' = Op("toggle angle", 0, 0, FALSE)
  /\ UNCHANGED <<vector, vectors, vectorSum, componentVars, vectorOrientation, visited,
                 sumVisibleProperty, valuesVisibleProperty, gridVisibleProperty,
                 vectorOrientationProperty, nodeVars>>

ToggleGridVisible ==
  /\ gridVisibleProperty' = ~gridVisibleProperty
  /\ lastOp' = Op("toggle grid", 0, 0, FALSE)
  /\ UNCHANGED <<vector, vectors, vectorSum, componentVars, vectorOrientation, visited,
                 sumVisibleProperty, valuesVisibleProperty, angleVisibleProperty,
                 vectorOrientationProperty, nodeVars>>

\* a radio button of the sceneRadioButtonGroup
SelectOrientation ==
  \E value \in RadioButtonValues :
    /\ vectorOrientationProperty' = value
    /\ lastOp' = Op("select orientation", value, 0, FALSE)
    /\ UNCHANGED <<vector, vectors, vectorSum, componentVars, vectorOrientation, visited,
                   sumVisibleProperty, valuesVisibleProperty, angleVisibleProperty,
                   gridVisibleProperty, nodeVars>>

\* the reset all button; the call records how many vectors and switched-on toggles it found
ResetAll ==
  /\ vectors' = resetAll(ScreenState).vectors
  /\ vectorSum' = IF vectors = <<>> THEN vectorSum ELSE updateSum(vectorSum, vectors')
  /\ sumVisibleProperty' = resetAll(ScreenState).sumVisibleProperty
  /\ valuesVisibleProperty' = resetAll(ScreenState).valuesVisibleProperty
  /\ angleVisibleProperty' = resetAll(ScreenState).angleVisibleProperty
  /\ gridVisibleProperty' = resetAll(ScreenState).gridVisibleProperty
  /\ vectorOrientationProperty' = resetAll(ScreenState).vectorOrientationProperty
  /\ lastOp' = Op("resetAll", Len(vectors), TogglesOn, FALSE)
  /\ UNCHANGED <<vector, componentVars, vectorOrientation, visited, nodeVars>>

NextScreen ==
  \/ ToggleSumVisible
  \/ ToggleValuesVisible
  \/ ToggleAngleVisible
  \/ ToggleGridVisible
  \/ SelectOrientation
  \/ AddVector
  \/ ResetAll

SpecScreen == InitVectorSet /\ [][NextScreen]_vars

\* C19: after reset all the four visibility toggles are false and the vector set holds no
\* vector, and a reset all that follows a reset all changes nothing.
C19_ResetAllRestoresAndIsIdempotent ==
  /\ [](lastOp.op = "resetAll" =>
          /\ ~sumVisibleProperty
          /\ ~valuesVisibleProperty
          /\ ~angleVisibleProperty
          /\ ~gridVisibleProperty
          /\ vectors = <<>>)
  /\ [][ (lastOp.op = "resetAll" /\ lastOp'.op = "resetAll") =>
           UNCHANGED <<vectors, vectorSum, screenVars, nodeVars>> ]_vars

\* a reset all that found two vectors and all four toggles on
C19_Witness ==
  /\ lastOp.op = "resetAll"
  /\ lastOp.a = 2
  /\ lastOp.b = 4
  /\ vectors = <<>>
  /\ TogglesOn = 0

\* C20: after reset all the vector orientation is back at HORIZONTAL.
C20_ResetAllRestoresOrientation ==
  lastOp.op = "resetAll" => vectorOrientationProperty = "HORIZONTAL"

----------------------------------------------------------------------------
(* CommonScreenView and Scene *)

MaxScenes == 2   \* the scene nodes of a screen: 0..MaxScenes
MaxCreated == 4  \* the vectors ever pushed to graph.vectors

\* the methods an instance of class Scene has: the class body defines the constructor only,
\* the rest is inherited from SCENERY/Node
Scene_methods == {"addChild", "removeChild", "setChildren", "moveToFront", "dispose"}

\* VectorNode.constructor: its parameters, in order
VectorNode_parameters ==
  <<"vectorModel", "graphModelBounds", "componentStyleProperty", "angleVisibleProperty",
    "vectorOrientation", "modelViewTransformProperty", "arrowOptions">>

\* the arguments of new VectorNode( ... ) in Scene, in order
Scene_vectorNodeArguments ==
  <<"addedVector", "graph.graphModelBounds", "model.componentStyleProperty",
    "model.angleVisibleProperty", "graph.modelViewTransformProperty", "VECTOR_OPTIONS">>

\* the arguments that are a Property holding a ModelViewTransform2
TransformProperties == {"graph.modelViewTransformProperty"}

\* JavaScript binds arguments to parameters by position; a parameter without an argument is
\* undefined
bind(parameters, arguments) ==
  [k \in 1..Len(parameters) |-> IF k <= Len(arguments) THEN arguments[k] ELSE Undefined]

boundTo(parameters, arguments, name) ==
  bind(parameters, arguments)[CHOOSE k \in 1..Len(parameters) : parameters[k] = name]

\* new VectorNode( ... ): modelViewTransformProperty.value.modelToViewDelta( ... ) is a
\* TypeError unless the sixth argument is a Property holding a transform
newVectorNode(arguments) ==
  [threw |-> boundTo(VectorNode_parameters, arguments, "modelViewTransformProperty")
               \notin TransformProperties,
   vectorOrientation |-> boundTo(VectorNode_parameters, arguments, "vectorOrientation")]

\* the listener Scene gives graph.vectors.addItemAddedListener
itemAddedListener(sc, addedVector) ==
  IF newVectorNode(Scene_vectorNodeArguments).threw
    THEN [threw |-> TRUE, scene |-> sc]
    ELSE [threw |-> FALSE,
          scene |-> [sc EXCEPT !.vectorLayer = Append(@, addedVector),
                               !.removalListeners = Append(@, addedVector)]]

\* graph.vectors.remove( removedVector ) with the removal listeners registered at that time:
\* the listener of that vector disposes its node and removes itself
itemRemoved(sc, removedVector) ==
  [sc EXCEPT !.vectors = SelectSeq(@, LAMBDA v : v # removedVector),
             !.vectorLayer =
               IF \E k \in 1..Len(sc.removalListeners) : sc.removalListeners[k] = removedVector
                 THEN SelectSeq(@, LAMBDA v : v # removedVector)
                 ELSE @,
             !.removalListeners = SelectSeq(@, LAMBDA v : v # removedVector)]

RECURSIVE removeAll(_, _)
\* graph.vectors.clear(): every vector is removed and the listeners are told of each
removeAll(sc, remaining) ==
  IF remaining = <<>> THEN sc
  ELSE removeAll(itemRemoved(sc, Head(remaining)), Tail(remaining))

\* CommonModel.reset(): the graphs' vectors are cleared
CommonModel_reset(sc) == removeAll(sc, sc.vectors)

\* the calls of the reset all listener that complete: commonModel.reset(), then
\* this.sceneNodes[ i ].reset() for each scene node, a TypeError where there is no such method
resetAllListener(sc) ==
  LET resettable == "reset" \in Scene_methods
      completed == IF resettable THEN sc.sceneNodes ELSE 0
  IN [threw |-> sc.sceneNodes > 0 /\ ~resettable,
      scene |-> [CommonModel_reset(sc) EXCEPT !.resetCalls =
                   <<[target |-> "commonModel", index |-> 0]>>
                     \o [k \in 1..completed |-> [target |-> "sceneNode", index |-> k]]]]

\* a vector is pushed to graph.vectors: it is in the array when the listener runs
SceneAddVector ==
  /\ scene.created < MaxCreated
  /\ Len(scene.vectors) < MaxVectors
  /\ LET id == scene.created + 1
         pushed == [scene EXCEPT !.vectors = Append(@, id), !.created = id]
     IN /\ scene' = itemAddedListener(pushed, id).scene
        /\ lastOp' = Op("scene add", id, 0, itemAddedListener(pushed, id).threw)
  /\ UNCHANGED <<vector, vectors, vectorSum, componentVars, vectorOrientation, visited,
                 screenVars, creatorPanel, componentsNode, arcArrowNode, vectorNode>>

SceneRemoveVector ==
  \E k \in 1..Len(scene.vectors) :
    /\ scene' = itemRemoved(scene, scene.vectors[k])
    /\ lastOp' = Op("scene remove", scene.vectors[k], 0, FALSE)
    /\ UNCHANGED <<vector, vectors, vectorSum, componentVars, vectorOrientation, visited,
                   screenVars, creatorPanel, componentsNode, arcArrowNode, vectorNode>>

PressResetAll ==
  /\ scene' = resetAllListener(scene).scene
  /\ lastOp' = Op("scene resetAll", Len(scene.vectors), 0, resetAllListener(scene).threw)
  /\ UNCHANGED <<vector, vectors, vectorSum, componentVars, vectorOrientation, visited,
                 screenVars, creatorPanel, componentsNode, arcArrowNode, vectorNode>>

InitScene ==
  /\ vector = BaseVectorModel(Vector2(0, 0), 1, 0)
  /\ lastOp = NoOp
  /\ InitSet
  /\ InitNoView
  /\ InitScreen
  /\ \E n \in 0..MaxScenes :
       scene = [sceneNodes |-> n, resetCalls |-> <<>>, vectors |-> <<>>, created |-> 0,
                vectorLayer |-> <<>>, removalListeners |-> <<>>]
  /\ creatorPanel = [slots |-> 0]
  /\ componentsNode = [visible |-> FALSE]
  /\ arcArrowNode = [angle |-> 0]
  /\ vectorNode = [constructed |-> FALSE]

NextScene ==
  \/ SceneAddVector
  \/ SceneRemoveVector
  \/ PressResetAll

SpecScene == InitScene /\ [][NextScene]_vars

\* C21: the reset all listener resets the common model, then every scene node in order, and
\* does not throw, whatever the number of scene nodes.
C21_ResetAllResetsEveryScene ==
  lastOp.op = "scene resetAll" =>
    /\ ~lastOp.threw
    /\ scene.resetCalls =
         <<[target |-> "commonModel", index |-> 0]>>
           \o [k \in 1..scene.sceneNodes |-> [target |-> "sceneNode", index |-> k]]

\* C22: the vector layer holds one vector node for each vector of graph.vectors, in the same
\* order, and as many removal listeners are registered as there are vectors.
C22_OneNodePerVector ==
  /\ scene.vectorLayer = scene.vectors
  /\ scene.removalListeners = scene.vectors

----------------------------------------------------------------------------
(* VectorCreatorPanel *)

MaxSlots == 2  \* numberOfVectorSlots: 0..MaxSlots

\* options.labels: null (the default) or an array with a label for each slot
NullLabels == [null |-> TRUE, array |-> <<>>]
GivenLabels(n) == [null |-> FALSE, array |-> [k \in 1..n |-> <<"a", "b", "c">>[k]]]

\* VectorCreatorPanel.constructor: the defaults are labels null, isVectorSlotInfinite false
\* and includeLabelsNextToIcons true; each slot gets its icon, its forwarding listener and,
\* when includeLabelsNextToIcons is true, a FormulaNode made from options.labels[ slotNumber ],
\* a TypeError when labels is null
newVectorCreatorPanel(numberOfVectorSlots, labels, isVectorSlotInfinite, includeLabelsNextToIcons) ==
  [constructed |-> ~(numberOfVectorSlots >= 1 /\ includeLabelsNextToIcons /\ labels.null),
   numberOfVectorSlots |-> numberOfVectorSlots,
   options |-> [labels |-> labels,
                isVectorSlotInfinite |-> isVectorSlotInfinite,
                includeLabelsNextToIcons |-> includeLabelsNextToIcons],
   iconVisible |-> [k \in 1..numberOfVectorSlots |-> TRUE],
   dragging |-> [k \in 1..numberOfVectorSlots |-> FALSE],
   vectors |-> <<>>,
   removedListeners |-> <<>>,
   created |-> 0]

\* the forwarding listener of a slot's icon: a vector representation starts to be dragged and
\* the icon of a slot that is not infinite is hidden
pressIcon(panel, slotNumber) ==
  [panel EXCEPT !.dragging[slotNumber] = TRUE,
                !.iconVisible[slotNumber] =
                  IF ~panel.options.isVectorSlotInfinite THEN FALSE ELSE @]

\* the end of the drag of the representation: a VectorModel is created (with the slot's label
\* as its only option, or with no options when labels is null), pushed, and a removed
\* listener for it is added to the array
endDrag(panel, slotNumber) ==
  LET newVectorModel ==
        [id |-> panel.created + 1,
         slot |-> slotNumber,
         label |-> IF panel.options.labels.null THEN Undefined
                   ELSE panel.options.labels.array[slotNumber]]
  IN [panel EXCEPT !.dragging[slotNumber] = FALSE,
                   !.created = @ + 1,
                   !.vectors = Append(@, newVectorModel),
                   !.removedListeners = Append(@, [id |-> newVectorModel.id,
                                                   slot |-> slotNumber])]

\* removed listeners that show their icon whatever vector was removed
itemRemovedFromArray_anyVector(panel, removedVector) ==
  [panel EXCEPT !.vectors = SelectSeq(@, LAMBDA v : v.id # removedVector),
                !.iconVisible =
                  [k \in 1..panel.numberOfVectorSlots |->
                     IF \E l \in 1..Len(panel.removedListeners) :
                          panel.removedListeners[l].slot = k
                       THEN TRUE ELSE @[k]]]

\* a vector leaves the array: every removed listener runs, the one added for that vector
\* makes its slot's icon visible
itemRemovedFromArray(panel, removedVector) ==
  [panel EXCEPT !.vectors = SelectSeq(@, LAMBDA v : v.id # removedVector),
                !.iconVisible =
                  [k \in 1..panel.numberOfVectorSlots |->
                     IF \E l \in 1..Len(panel.removedListeners) :
                          /\ panel.removedListeners[l].id = removedVector
                          /\ panel.removedListeners[l].slot = k
                       THEN TRUE ELSE @[k]]]

RECURSIVE clearArray(_, _)
\* VectorSet.reset(): this.vectors.clear() removes every vector
clearArray(panel, remaining) ==
  IF remaining = <<>> THEN panel
  ELSE clearArray(itemRemovedFromArray(panel, Head(remaining).id), Tail(remaining))

DraggingCount ==
  Cardinality({k \in 1..creatorPanel.numberOfVectorSlots : creatorPanel.dragging[k]})

ConstructPanel ==
  \E n \in 0..MaxSlots, labelsGiven \in BOOLEAN, infinite \in BOOLEAN, include \in BOOLEAN :
    /\ ~creatorPanel.constructed
    /\ creatorPanel.numberOfVectorSlots = 0
    /\ lastOp.op = "new"
    /\ creatorPanel' = newVectorCreatorPanel(n, IF labelsGiven THEN GivenLabels(n)
                                                ELSE NullLabels, infinite, include)
    /\ lastOp' = Op("new VectorCreatorPanel", n, 0, ~creatorPanel'.constructed)
    /\ UNCHANGED <<vector, vectors, vectorSum, componentVars, vectorOrientation, visited,
                   screenVars, scene, componentsNode, arcArrowNode, vectorNode>>

\* a press on a slot's icon; an icon that is not visible cannot be pressed
PressIcon ==
  \E k \in 1..creatorPanel.numberOfVectorSlots :
    /\ creatorPanel.constructed
    /\ creatorPanel.iconVisible[k]
    /\ ~creatorPanel.dragging[k]
    /\ creatorPanel.created + DraggingCount < MaxCreated
    /\ Len(creatorPanel.vectors) + DraggingCount < MaxVectors
    /\ creatorPanel' = pressIcon(creatorPanel, k)
    /\ lastOp' = Op("press icon", k, 0, FALSE)
    /\ UNCHANGED <<vector, vectors, vectorSum, componentVars, vectorOrientation, visited,
                   screenVars, scene, componentsNode, arcArrowNode, vectorNode>>

EndDrag ==
  \E k \in 1..creatorPanel.numberOfVectorSlots :
    /\ creatorPanel.constructed
    /\ creatorPanel.dragging[k]
    /\ creatorPanel' = endDrag(creatorPanel, k)
    /\ lastOp' = Op("end drag", k, 0, FALSE)
    /\ UNCHANGED <<vector, vectors, vectorSum, componentVars, vectorOrientation, visited,
                   screenVars, scene, componentsNode, arcArrowNode, vectorNode>>

RemovePanelVector ==
  \E k \in 1..(IF creatorPanel.constructed THEN Len(creatorPanel.vectors) ELSE 0) :
    /\ creatorPanel' = itemRemovedFromArray(creatorPanel, creatorPanel.vectors[k].id)
    /\ lastOp' = Op("panel vector removed", creatorPanel.vectors[k].slot, 0, FALSE)
    /\ UNCHANGED <<vector, vectors, vectorSum, componentVars, vectorOrientation, visited,
                   screenVars, scene, componentsNode, arcArrowNode, vectorNode>>

ResetPanelVectors ==
  /\ creatorPanel.constructed
  /\ creatorPanel' = clearArray(creatorPanel, creatorPanel.vectors)
  /\ lastOp' = Op("panel vectors reset", Len(creatorPanel.vectors), 0, FALSE)
  /\ UNCHANGED <<vector, vectors, vectorSum, componentVars, vectorOrientation, visited,
                 screenVars, scene, componentsNode, arcArrowNode, vectorNode>>

InitCreatorPanel ==
  /\ vector = BaseVectorModel(Vector2(0, 0), 1, 0)
  /\ lastOp = NoOp
  /\ InitSet
  /\ InitNoView
  /\ InitScreen
  /\ scene = [sceneNodes |-> 0]
  /\ creatorPanel = [constructed |-> FALSE, numberOfVectorSlots |-> 0]
  /\ componentsNode = [visible |-> FALSE]
  /\ arcArrowNode = [angle |-> 0]
  /\ vectorNode = [constructed |-> FALSE]

NextCreatorPanel ==
  \/ ConstructPanel
  \/ PressIcon
  \/ EndDrag
  \/ RemovePanelVector
  \/ ResetPanelVectors

SpecCreatorPanel == InitCreatorPanel /\ [][NextCreatorPanel]_vars

\* the vectors in the array that were created from a slot
VectorsOfSlot(k) ==
  {v \in 1..Len(creatorPanel.vectors) : creatorPanel.vectors[v].slot = k}

\* C23: on a panel whose slots are not infinite a slot's icon is hidden exactly while a drag
\* from it is under way or the vector created from it is in the array, so there is at most
\* one such vector; an icon turns visible only in a step that removes the slot's vector; on
\* a panel with infinite slots every icon is visible in every state.
C23_IconHiddenWhileItsVectorExists ==
  /\ [](creatorPanel.constructed =>
          \A k \in 1..creatorPanel.numberOfVectorSlots :
            IF creatorPanel.options.isVectorSlotInfinite
              THEN creatorPanel.iconVisible[k]
              ELSE /\ creatorPanel.iconVisible[k] =
                        ~(creatorPanel.dragging[k] \/ VectorsOfSlot(k) # {})
                   /\ Cardinality(VectorsOfSlot(k)) <= 1)
  /\ [][ creatorPanel.constructed =>
           \A k \in 1..creatorPanel.numberOfVectorSlots :
             (~creatorPanel.iconVisible[k] /\ creatorPanel'.iconVisible[k]) =>
               /\ lastOp'.op \in {"panel vector removed", "panel vectors reset"}
               /\ VectorsOfSlot(k) # {}
               /\ \A v \in 1..Len(creatorPanel'.vectors) :
                    creatorPanel'.vectors[v].slot # k ]_vars

\* on a panel with two finite slots the vector of slot 1 has just been removed while the
\* vector of slot 2 is still in the array
C23_Witness ==
  /\ creatorPanel.constructed
  /\ creatorPanel.numberOfVectorSlots = 2
  /\ ~creatorPanel.options.isVectorSlotInfinite
  /\ lastOp.op = "panel vector removed"
  /\ lastOp.a = 1
  /\ creatorPanel.iconVisible = <<TRUE, FALSE>>
  /\ Len(creatorPanel.vectors) = 1

\* C24: a panel constructed with labels null is built, for any number of slots, and the
\* vectors dropped from it have no label.
C24_NullLabelsPanelIsBuilt ==
  /\ (lastOp.op = "new VectorCreatorPanel" /\ creatorPanel.options.labels.null) =>
       creatorPanel.constructed
  /\ (creatorPanel.constructed /\ creatorPanel.options.labels.null) =>
       \A v \in 1..Len(creatorPanel.vectors) : creatorPanel.vectors[v].label = Undefined

----------------------------------------------------------------------------
(* VectorNode: construction and the body and tip drag listeners *)

\* positions and components are in hundredths of a model unit here, so that a value that
\* is not on the grid can be told from one that is: the creator panel drops a vector at
\* viewToModelPosition of the drop location, which is on no grid
RawDropPositions == {Vector2(230, 170), Vector2(-50, 250), Vector2(0, 0)}
RawDefaultComponents == {Vector2(500, 500), Vector2(250, -250), Vector2(300, 0)}

\* ModelViewTransform2.modelToViewPosition and modelToViewDelta of a point in hundredths
modelToViewPosition(p) ==
  Vector2(GraphViewMinX
            + ((p.x - GraphModelMinX * MagnitudeScale) * ViewUnitsPerModelUnit)
                \div MagnitudeScale,
          GraphViewMinY
            + ((GraphModelMaxY * MagnitudeScale - p.y) * ViewUnitsPerModelUnit)
                \div MagnitudeScale)
modelToViewDeltaOfRaw(v) ==
  Vector2((v.x * ViewUnitsPerModelUnit) \div MagnitudeScale,
          0 - ((v.y * ViewUnitsPerModelUnit) \div MagnitudeScale))

\* new VectorModel( tailPosition, xComponent, yComponent, ... ): the fields a node uses
VectorModel(tailPosition, vectorComponents, isTipDraggable) ==
  [tail |-> tailPosition, components |-> vectorComponents, isTipDraggable |-> isTipDraggable]

Scaled(v) == Vector2(v.x * MagnitudeScale, v.y * MagnitudeScale)

\* tailListener: this.tailSnapToGrid( tailLocation )
tailListener(node, tailLocation) ==
  [node EXCEPT !.vectorModel.tail =
     Scaled(get_tail(tailSnapToGrid(BaseVectorModel(Vector2(0, 0), 1, 0), tailLocation)))]

\* tipListener: this.tipSnapToGrid( tipLocation ); a call that throws changes nothing
tipListener(node, tipLocation) ==
  LET snap == tipSnapToGrid(BaseVectorModel(Vector2(0, 0), 1, 0), node.vectorOrientation,
                            tipLocation)
  IN IF snap.threw THEN node
     ELSE [node EXCEPT !.vectorModel.components = Scaled(snap.vec.attributesVectorProperty)]

\* a constructor that makes the tip drag whatever isTipDraggable is
VectorNode_constructor_alwaysTipDrag(vectorModel, orientation) ==
  tipListener(
    tailListener([constructed |-> TRUE, vectorModel |-> vectorModel,
                  vectorOrientation |-> orientation, tipListener |-> TRUE],
                 modelToViewPosition(vectorModel.tail)),
    modelToViewDeltaOfRaw(vectorModel.components))

\* a constructor that registers its listeners without calling them (lazyLink)
VectorNode_constructor_lazyLink(vectorModel, orientation) ==
  [constructed |-> TRUE, vectorModel |-> vectorModel,
   vectorOrientation |-> orientation, tipListener |-> vectorModel.isTipDraggable]

\* VectorNode.constructor: tailLocationProperty.link( tailListener ) calls the listener with
\* the view location of the tail; for a vector with isTipDraggable the tip drag is made and
\* tipLocationProperty.link( tipListener ) calls the listener with the view location of the
\* components
VectorNode_constructor(vectorModel, orientation) ==
  LET linkedTail ==
        tailListener([constructed |-> TRUE, vectorModel |-> vectorModel,
                      vectorOrientation |-> orientation, tipListener |-> FALSE],
                     modelToViewPosition(vectorModel.tail))
  IN IF vectorModel.isTipDraggable
       THEN tipListener([linkedTail EXCEPT !.tipListener = TRUE],
                        modelToViewDeltaOfRaw(vectorModel.components))
       ELSE linkedTail

\* a drag of the body: the drag listener sets tailLocationProperty
BodyDrag ==
  \E tailLocation \in TailViewLocations :
    /\ vectorNode.constructed
    /\ vectorNode' = tailListener(vectorNode, tailLocation)
    /\ lastOp' = Op("body drag", tailLocation, 0, FALSE)
    /\ UNCHANGED <<vector, vectors, vectorSum, componentVars, vectorOrientation, visited,
                   screenVars, scene, creatorPanel, componentsNode, arcArrowNode>>

\* a drag of the tip circle: only a node with a tip drag listener gets the event
TipCircleDrag ==
  \E x \in ViewCoords, y \in ViewCoords :
    /\ vectorNode.constructed
    /\ vectorNode.tipListener
    /\ vectorNode' = tipListener(vectorNode, Vector2(x, y))
    /\ lastOp' = Op("tip drag", Vector2(x, y), 0, FALSE)
    /\ UNCHANGED <<vector, vectors, vectorSum, componentVars, vectorOrientation, visited,
                   screenVars, scene, creatorPanel, componentsNode, arcArrowNode>>

\* the state after new VectorNode( vectorModel, ... ) for a vector just dropped by the
\* creator panel; a vector whose tip is draggable has one of the three orientations
InitNodeDrag ==
  /\ vector = BaseVectorModel(Vector2(0, 0), 1, 0)
  /\ InitSet
  /\ InitNoView
  /\ InitScreen
  /\ scene = [sceneNodes |-> 0]
  /\ creatorPanel = [slots |-> 0]
  /\ componentsNode = [visible |-> FALSE]
  /\ arcArrowNode = [angle |-> 0]
  /\ \E p \in RawDropPositions, c \in RawDefaultComponents, isTipDraggable \in BOOLEAN,
        orientation \in OrientationInputs :
       /\ isTipDraggable => orientation \in VectorOrientations
       /\ vectorNode = VectorNode_constructor(VectorModel(p, c, isTipDraggable), orientation)
       /\ lastOp = Op("new VectorNode", p, c, FALSE)

NextNodeDrag ==
  \/ BodyDrag
  \/ TipCircleDrag

SpecNodeDrag == InitNodeDrag /\ [][NextNodeDrag]_vars

\* C26: a tip drag leaves the vector's tail where it was, under every orientation; a node
\* of a vector whose isTipDraggable is false has no tip listener, and no step changes that
\* vector's components.
C26_TipDragKeepsTail ==
  /\ [](vectorNode.constructed =>
          (~vectorNode.vectorModel.isTipDraggable => ~vectorNode.tipListener))
  /\ [][ /\ lastOp'.op = "tip drag" =>
              vectorNode'.vectorModel.tail = vectorNode.vectorModel.tail
         /\ ~vectorNode.vectorModel.isTipDraggable =>
              vectorNode'.vectorModel.components = vectorNode.vectorModel.components ]_vars

\* the tip of a HORIZONTAL vector with its tail at (1, 1) dragged to the raw point (2.5, 2.6)
C26_Witness ==
  /\ lastOp.op = "tip drag"
  /\ lastOp.a = Vector2(125, -130)
  /\ vectorNode.vectorOrientation = "HORIZONTAL"
  /\ vectorNode.vectorModel.tail = Vector2(100, 100)
  /\ vectorNode.vectorModel.components = Vector2(300, 0)

OnGrid(v) == v.x % MagnitudeScale = 0 /\ v.y % MagnitudeScale = 0

\* C29: in every state from the construction of the node on, the vector's tail has integer
\* coordinates and, when its tip is draggable, its components are integers with y = 0 on a
\* HORIZONTAL node and x = 0 on a VERTICAL node.
C29_SnappedFromConstructionOn ==
  vectorNode.constructed =>
    /\ OnGrid(vectorNode.vectorModel.tail)
    /\ vectorNode.vectorModel.isTipDraggable =>
         /\ OnGrid(vectorNode.vectorModel.components)
         /\ vectorNode.vectorOrientation = "HORIZONTAL" =>
              vectorNode.vectorModel.components.y = 0
         /\ vectorNode.vectorOrientation = "VERTICAL" =>
              vectorNode.vectorModel.components.x = 0

\* a node just constructed, HORIZONTAL, for a vector dropped at (2.3, 1.7) with the default
\* components (2.5, -2.5): the tail is at (2, 2) and the components are (3, 0)
C29_Witness ==
  /\ lastOp.op = "new VectorNode"
  /\ lastOp.a = Vector2(230, 170)
  /\ lastOp.b = Vector2(250, -250)
  /\ vectorNode.vectorOrientation = "HORIZONTAL"
  /\ vectorNode.vectorModel.isTipDraggable
  /\ vectorNode.vectorModel.tail = Vector2(200, 200)
  /\ vectorNode.vectorModel.components = Vector2(300, 0)

----------------------------------------------------------------------------
(* VectorComponentsNode *)

\* the values the four properties of the multilink take: the vector's components, its tail
\* and the scale of the transform (view units for a model unit)
NodeAttributes == {Vector2(1, 2), Vector2(-1, 0)}
NodeTails == {Vector2(0, 0), Vector2(2, 1)}
TransformScales == {50, 100}

\* ModelViewTransform2.modelToViewDelta with an inverted y axis
transformDelta(scale, v) == Vector2(v.x * scale, 0 - v.y * scale)

\* vectorModel.getXComponentCoordinates( componentStyle ) and getYComponentCoordinates:
\* tail and tip of each component by the style's policy
getXComponentCoordinates(componentStyle, attributesVector, tailPosition) ==
  LET t == IF componentStyle = "ON_AXIS" THEN Vector2(tailPosition.x, 0) ELSE tailPosition
  IN [tail |-> t, tip |-> Vector2(t.x + attributesVector.x, t.y)]
getYComponentCoordinates(componentStyle, attributesVector, tailPosition) ==
  LET t == IF componentStyle = "ON_AXIS" THEN Vector2(0, tailPosition.y) ELSE tailPosition
  IN [tail |-> t, tip |-> Vector2(t.x, t.y + attributesVector.y)]

Vector2_minus(a, b) == Vector2(a.x - b.x, a.y - b.y)

\* the arrows and the dashed lines before the first update
NoArrow == [tail |-> Vector2(0, 0), tip |-> Vector2(0, 0)]
EmptyShape == <<>>

\* updateComponents with the lines left as they were when the style is not INVISIBLE
updateComponents_keepsLines(node) ==
  IF node.componentStyle = "INVISIBLE"
    THEN [node EXCEPT !.visible = FALSE, !.onAxisLinesVisible = FALSE]
    ELSE [node EXCEPT !.visible = TRUE,
                      !.onAxisLinesVisible =
                        IF node.componentStyle = "ON_AXIS" THEN TRUE ELSE @]

\* updateComponents( componentStyle, attributesVector, tailPosition, modelViewTransform ),
\* called with the values the four properties hold
updateComponents(node) ==
  IF node.componentStyle = "INVISIBLE"
    THEN [node EXCEPT !.visible = FALSE, !.onAxisLinesVisible = FALSE]
    ELSE
      LET xComponentCoordinates ==
            getXComponentCoordinates(node.componentStyle, node.attributesVector,
                                     node.tailPosition)
          yComponentCoordinates ==
            getYComponentCoordinates(node.componentStyle, node.attributesVector,
                                     node.tailPosition)
          view(p) == transformDelta(node.modelViewTransform,
                                    Vector2_minus(p, node.tailPosition))
          tailLocation == transformDelta(node.modelViewTransform, node.tailPosition)
          viewVector == transformDelta(node.modelViewTransform, node.attributesVector)
      IN [node EXCEPT
            !.visible = TRUE,
            !.onAxisLinesVisible = (node.componentStyle = "ON_AXIS"),
            !.XComponentArrow = [tail |-> view(xComponentCoordinates.tail),
                                 tip |-> view(xComponentCoordinates.tip)],
            !.YComponentArrow = [tail |-> view(yComponentCoordinates.tail),
                                 tip |-> view(yComponentCoordinates.tip)],
            !.onAxisLines =
              IF node.componentStyle = "ON_AXIS"
                THEN << <<Vector2(0 - tailLocation.x, 0), Vector2(0, 0),
                          Vector2(0, 0 - tailLocation.y)>>,
                        <<Vector2(0 - tailLocation.x, viewVector.y),
                          Vector2(viewVector.x, viewVector.y),
                          Vector2(viewVector.x, 0 - tailLocation.y)>> >>
                ELSE @]

\* the last three values of the component style, the newest last
Logged(log, componentStyle) ==
  IF Len(log) < 3 THEN Append(log, componentStyle) ELSE Append(Tail(log), componentStyle)

\* VectorComponentsNode.constructor: Property.multilink calls updateComponents at once
newVectorComponentsNode(componentStyle, attributesVector, tailPosition, scale) ==
  updateComponents([constructed |-> TRUE,
                    componentStyle |-> componentStyle,
                    attributesVector |-> attributesVector,
                    tailPosition |-> tailPosition,
                    modelViewTransform |-> scale,
                    visible |-> TRUE,
                    onAxisLinesVisible |-> TRUE,
                    XComponentArrow |-> NoArrow,
                    YComponentArrow |-> NoArrow,
                    onAxisLines |-> EmptyShape,
                    styleLog |-> <<componentStyle>>])

\* componentStyleProperty.value = ...: a value other than the current one notifies
SetComponentStyle ==
  \E componentStyle \in ComponentStyles :
    /\ componentsNode.constructed
    /\ componentStyle # componentsNode.componentStyle
    /\ componentsNode' =
         updateComponents([componentsNode EXCEPT
                             !.componentStyle = componentStyle,
                             !.styleLog = Logged(@, componentStyle)])
    /\ lastOp' = Op("componentStyle", componentStyle, componentsNode.componentStyle, FALSE)
    /\ UNCHANGED <<vector, vectors, vectorSum, componentVars, vectorOrientation, visited,
                   screenVars, scene, creatorPanel, arcArrowNode, vectorNode>>

\* attributesVectorProperty given a new vector
SetAttributesVector ==
  \E v \in NodeAttributes :
    /\ componentsNode.constructed
    /\ componentsNode' = updateComponents([componentsNode EXCEPT !.attributesVector = v])
    /\ lastOp' = Op("attributesVector", v, 0, FALSE)
    /\ UNCHANGED <<vector, vectors, vectorSum, componentVars, vectorOrientation, visited,
                   screenVars, scene, creatorPanel, arcArrowNode, vectorNode>>

\* tailPositionProperty given a new vector
SetTailPosition ==
  \E p \in NodeTails :
    /\ componentsNode.constructed
    /\ componentsNode' = updateComponents([componentsNode EXCEPT !.tailPosition = p])
    /\ lastOp' = Op("tailPosition", p, 0, FALSE)
    /\ UNCHANGED <<vector, vectors, vectorSum, componentVars, vectorOrientation, visited,
                   screenVars, scene, creatorPanel, arcArrowNode, vectorNode>>

\* the tail changed in place (BaseVectorModel set tailX): no notification, no update
SetTailXInPlace ==
  \E x \in {p.x : p \in NodeTails} :
    /\ componentsNode.constructed
    /\ componentsNode' = [componentsNode EXCEPT !.tailPosition = Vector2_setX(@, x)]
    /\ lastOp' = Op("tailX in place", x, 0, FALSE)
    /\ UNCHANGED <<vector, vectors, vectorSum, componentVars, vectorOrientation, visited,
                   screenVars, scene, creatorPanel, arcArrowNode, vectorNode>>

\* modelViewTransformProperty given a new transform
SetModelViewTransform ==
  \E scale \in TransformScales :
    /\ componentsNode.constructed
    /\ scale # componentsNode.modelViewTransform
    /\ componentsNode' = updateComponents([componentsNode EXCEPT !.modelViewTransform = scale])
    /\ lastOp' = Op("modelViewTransform", scale, 0, FALSE)
    /\ UNCHANGED <<vector, vectors, vectorSum, componentVars, vectorOrientation, visited,
                   screenVars, scene, creatorPanel, arcArrowNode, vectorNode>>

InitComponentsNode ==
  /\ vector = BaseVectorModel(Vector2(0, 0), 1, 0)
  /\ InitSet
  /\ InitNoView
  /\ InitScreen
  /\ scene = [sceneNodes |-> 0]
  /\ creatorPanel = [slots |-> 0]
  /\ arcArrowNode = [angle |-> 0]
  /\ vectorNode = [constructed |-> FALSE]
  /\ \E componentStyle \in ComponentStyles, v \in NodeAttributes, p \in NodeTails,
        scale \in TransformScales :
       /\ componentsNode = newVectorComponentsNode(componentStyle, v, p, scale)
       /\ lastOp = Op("new VectorComponentsNode", componentStyle, 0, FALSE)

NextComponentsNode ==
  \/ SetComponentStyle
  \/ SetAttributesVector
  \/ SetTailPosition
  \/ SetTailXInPlace
  \/ SetModelViewTransform

SpecComponentsNode == InitComponentsNode /\ [][NextComponentsNode]_vars

\* C27: in every state of a components node, from its construction on and after every
\* change of style, components, tail or transform, the node is visible exactly when the
\* style is not INVISIBLE and the dashed on-axis lines are visible exactly when the style
\* is ON_AXIS.
C27_VisibilityFollowsStyle ==
  componentsNode.constructed =>
    /\ componentsNode.visible = (componentsNode.componentStyle # "INVISIBLE")
    /\ componentsNode.onAxisLinesVisible = (componentsNode.componentStyle = "ON_AXIS")

\* the style went ON_AXIS, INVISIBLE, TRIANGLE: the node shows and the dashed lines do not
C27_Witness ==
  /\ componentsNode.constructed
  /\ componentsNode.styleLog = <<"ON_AXIS", "INVISIBLE", "TRIANGLE">>
  /\ lastOp.op = "componentStyle"
  /\ componentsNode.visible
  /\ ~componentsNode.onAxisLinesVisible
  /\ componentsNode.onAxisLines # EmptyShape

----------------------------------------------------------------------------
(* ArcArrowNode *)

\* angles in degrees and radii in view units that an arc arrow is given; arrowheadHeight is
\* the default, 5
ArcAngles == {-45, -10, 0, 10, 45, 80}
ArcRadii == {4, 5, 10, 20}
arrowheadHeight == 5

\* Math.asin( arrowheadHeight / radius ) in hundredths of a degree; NaN when the radius is
\* shorter than the arrowhead
Math_asin(height, radius) ==
  CASE height > radius -> [nan |-> TRUE, value |-> 0]
    [] height = radius -> [nan |-> FALSE, value |-> 9000]
    [] 2 * height = radius -> [nan |-> FALSE, value |-> 3000]
    [] 4 * height = radius -> [nan |-> FALSE, value |-> 1448]

\* a comparison with NaN is false
GreaterThan(value, other) == ~other.nan /\ value > other.value

\* ArcArrowNode.setAngleAndRadius( angle, radius, includeArrowhead ): the parameter
\* includeArrowhead is not read; setArrowheadVisibility assigns this.arrowheadIncluded and
\* the visibility of the arrowhead path before the arc is drawn. Angles are kept in
\* hundredths of a degree where the code has radians.
setAngleAndRadius(node, angle, radius, includeArrowhead) ==
  LET angleInRadians == angle * 100
      isAnticlockwise == angle >= 0
      arrowheadSubtentedAngle == Math_asin(arrowheadHeight, radius)
      visible == GreaterThan(Abs(angleInRadians), arrowheadSubtentedAngle)
      correctedAngle == IF isAnticlockwise
                          THEN angleInRadians - arrowheadSubtentedAngle.value
                          ELSE angleInRadians + arrowheadSubtentedAngle.value
  IN [node EXCEPT
        !.angle = angle,
        !.radius = radius,
        !.arrowheadIncluded = visible,
        !.arrowheadVisible = visible,
        !.arcEndAngle = IF visible THEN 0 - correctedAngle ELSE 0 - angleInRadians,
        !.arcAnticlockwise = isAnticlockwise,
        !.arrowheadRotation = IF isAnticlockwise THEN 0 - angleInRadians
                              ELSE 18000 - angleInRadians,
        !.arrowheadAtAngle = IF visible THEN correctedAngle ELSE angleInRadians]

\* ArcArrowNode.constructor( angle, radius, options )
newArcArrowNode(angle, radius, includeArrowhead) ==
  setAngleAndRadius([constructed |-> TRUE,
                     options |-> [includeArrowhead |-> includeArrowhead],
                     angle |-> angle,
                     radius |-> radius,
                     arrowheadIncluded |-> includeArrowhead,
                     arrowheadVisible |-> TRUE,
                     arcEndAngle |-> 0,
                     arcAnticlockwise |-> TRUE,
                     arrowheadRotation |-> 0,
                     arrowheadAtAngle |-> 0],
                    angle, radius, includeArrowhead)

\* ArcArrowNode.setAngle( angle )
setAngle(node, angle) == setAngleAndRadius(node, angle, node.radius, node.arrowheadIncluded)

\* ArcArrowNode.setRadius( radius )
setRadius(node, radius) == setAngleAndRadius(node, node.angle, radius, node.arrowheadIncluded)

SetAngle ==
  \E angle \in ArcAngles :
    /\ arcArrowNode.constructed
    /\ arcArrowNode' = setAngle(arcArrowNode, angle)
    /\ lastOp' = Op("setAngle", angle, 0, FALSE)
    /\ UNCHANGED <<vector, vectors, vectorSum, componentVars, vectorOrientation, visited,
                   screenVars, scene, creatorPanel, componentsNode, vectorNode>>

SetRadius ==
  \E radius \in ArcRadii :
    /\ arcArrowNode.constructed
    /\ arcArrowNode' = setRadius(arcArrowNode, radius)
    /\ lastOp' = Op("setRadius", radius, 0, FALSE)
    /\ UNCHANGED <<vector, vectors, vectorSum, componentVars, vectorOrientation, visited,
                   screenVars, scene, creatorPanel, componentsNode, vectorNode>>

InitArcArrow ==
  /\ vector = BaseVectorModel(Vector2(0, 0), 1, 0)
  /\ InitSet
  /\ InitNoView
  /\ InitScreen
  /\ scene = [sceneNodes |-> 0]
  /\ creatorPanel = [slots |-> 0]
  /\ componentsNode = [visible |-> FALSE]
  /\ vectorNode = [constructed |-> FALSE]
  /\ \E angle \in ArcAngles, radius \in ArcRadii, includeArrowhead \in BOOLEAN :
       /\ arcArrowNode = newArcArrowNode(angle, radius, includeArrowhead)
       /\ lastOp = Op("new ArcArrowNode", angle, radius, FALSE)

NextArcArrow ==
  \/ SetAngle
  \/ SetRadius

SpecArcArrow == InitArcArrow /\ [][NextArcArrow]_vars

\* C28: the arrowhead of a node constructed with includeArrowhead false is never visible,
\* after construction or after any setAngle or setRadius; the arrowhead of a node
\* constructed with includeArrowhead true is visible exactly when |angle| in radians is
\* greater than asin( arrowheadHeight / radius ).
C28_ExcludedArrowheadNeverVisible ==
  arcArrowNode.constructed =>
    IF arcArrowNode.options.includeArrowhead
      THEN arcArrowNode.arrowheadVisible =
             GreaterThan(Abs(arcArrowNode.angle * 100),
                         Math_asin(arrowheadHeight, arcArrowNode.radius))
      ELSE ~arcArrowNode.arrowheadVisible

----------------------------------------------------------------------------
(* A scene whose vector nodes all have the scene's orientation *)

\* where tips (relative to the tail) and bodies are dragged to: the raw points (2.5, 2.6),
\* (-2.5, -2.4), (0, -2.5) and the raw tails (1, 1), (-0.5, -0.5)
SceneTipLocations == {Vector2(125, -130), Vector2(-125, 120), Vector2(0, 125)}
SceneTailLocations == {Vector2(1666, 1310), Vector2(1591, 1385)}

\* a vector dropped from the creator panel gets its node: the vector is pushed with the
\* default components, the sum is updated, the node's constructor snaps the tail and the
\* tip, and the sum is updated by the notification of the snapped components
createVector(array, position, defaultVectorComponents, orientation) ==
  LET pushed == dropVector(array, position, defaultVectorComponents)
      k == Len(pushed)
  IN [pushed EXCEPT ![k] =
        VectorNode(tailSnapToGrid(@, modelToViewPosition(Scaled(get_tail(@)))),
                   orientation)]

CreateVector ==
  \E p \in DropPositions, c \in DefaultComponents :
    /\ Len(vectors) < MaxVectors
    /\ vectors' = createVector(vectors, p, c, vectorOrientation)
    /\ vectorSum' = updateSum(updateSum(vectorSum, dropVector(vectors, p, c)), vectors')
    /\ lastOp' = Op("create vector", c.x, c.y, FALSE)
    /\ UNCHANGED <<vector, componentVars, vectorOrientation, visited, screenVars, nodeVars>>

SceneTipDrag ==
  \E i \in 1..Len(vectors), tipLocation \in SceneTipLocations :
    /\ vectors' = [vectors EXCEPT
                     ![i] = tipSnapToGrid(@, vectorOrientation, tipLocation).vec]
    /\ vectorSum' = updateSum(vectorSum, vectors')
    /\ lastOp' = Op("scene tip drag", i, 0, FALSE)
    /\ UNCHANGED <<vector, componentVars, vectorOrientation, visited, screenVars, nodeVars>>

\* a body drag moves the tail; attributesVectorProperty does not notify and the sum's
\* listener does not run
SceneBodyDrag ==
  \E i \in 1..Len(vectors), tailLocation \in SceneTailLocations :
    /\ vectors' = [vectors EXCEPT ![i] = tailSnapToGrid(@, tailLocation)]
    /\ lastOp' = Op("scene body drag", i, 0, FALSE)
    /\ UNCHANGED <<vector, vectorSum, viewVars>>

InitOrientedScene ==
  /\ vector = BaseVectorModel(Vector2(0, 0), 1, 0)
  /\ lastOp = NoOp
  /\ InitSet
  /\ InitScreen
  /\ InitNoNodes
  /\ parentVectors = <<>>
  /\ yVectorComponent = VectorComponent
  /\ visited = <<>>
  /\ vectorOrientation \in VectorOrientations

NextOrientedScene ==
  \/ CreateVector
  \/ SceneTipDrag
  \/ SceneBodyDrag
  \/ RemoveVector

SpecOrientedScene == InitOrientedScene /\ [][NextOrientedScene]_vars

====
